---- MODULE Spec2Model ----
(***************************************************************************)
(* Model of the neonthreads story server: the characters table, the        *)
(* story_events table, and the request handlers of routes/story.ts and     *)
(* routes/characters.ts.  A handler is split at the awaits that touch the  *)
(* database, so that requests interleave exactly where the Node.js event   *)
(* loop lets them.  Strings that the code inspects (item names, directive  *)
(* strings, trades) are sequences of one-character strings.                *)
(***************************************************************************)
EXTENDS Integers, Sequences, FiniteSets, TLC

\* ------------------------------------------------------------------ bounds

\* Requests (slots) that can be in flight at the same time.
MaxConcurrent == 2
\* Story requests (scenario, action, combat) begun in one behaviour.
MaxRequests == 2
\* PATCH /:id/status requests served in one behaviour.
MaxPatches == 1

\* ------------------------------------------------------- program constants

StartingHealth == 100
StartingMoney == 500
StartingMaxHealth == 100
DefaultHealth == 100
DefaultMoney == 500
DefaultMaxHealth == 100
DefeatDamage == 20
VictoryDamage == 5
DefaultDamage == 10
InjuredBaseDamage == 10
InjuryDamage == 5

\* ------------------------------------------------------------------ strings

\* String.prototype.toLowerCase, letter by letter.
UpperLetters == <<"A","B","C","D","E","F","G","H","I","J","K","L","M",
                  "N","O","P","Q","R","S","T","U","V","W","X","Y","Z">>
LowerLetters == <<"a","b","c","d","e","f","g","h","i","j","k","l","m",
                  "n","o","p","q","r","s","t","u","v","w","x","y","z">>

lowerOf ==
    [c \in {UpperLetters[i] : i \in 1..Len(UpperLetters)} |->
        LowerLetters[CHOOSE i \in 1..Len(UpperLetters) : UpperLetters[i] = c]]

LowerChar(c) == IF c \in DOMAIN lowerOf THEN lowerOf[c] ELSE c

toLowerCase(s) == [i \in 1..Len(s) |-> LowerChar(s[i])]

\* String.prototype.includes
includes(s, k) ==
    \E i \in 0..(Len(s) - Len(k)) : SubSeq(s, i + 1, i + Len(k)) = k

\* String.prototype.startsWith, for a one-character prefix
startsWith(s, c) == Len(s) > 0 /\ s[1] = c

\* String.prototype.substring(1)
substring1(s) == IF Len(s) = 0 THEN s ELSE Tail(s)

RECURSIVE trimStart(_)
trimStart(s) ==
    IF Len(s) > 0 /\ s[1] = " " THEN trimStart(Tail(s)) ELSE s

RECURSIVE trimEnd(_)
trimEnd(s) ==
    IF Len(s) > 0 /\ s[Len(s)] = " " THEN trimEnd(SubSeq(s, 1, Len(s) - 1)) ELSE s

\* String.prototype.trim
trim(s) == trimEnd(trimStart(s))

\* The words the code looks for.
kwWeapon == << <<"w","e","a","p","o","n">>, <<"g","u","n">>, <<"k","n","i","f","e">>,
               <<"s","w","o","r","d">>, <<"b","l","a","d","e">>, <<"r","i","f","l","e">>,
               <<"p","i","s","t","o","l">>, <<"a","m","m","o">> >>
kwCyberware == << <<"c","y","b","e","r","w","a","r","e">>, <<"i","m","p","l","a","n","t">>,
                  <<"a","u","g","m","e","n","t">>, <<"m","o","d">> >>
kwConsumable == << <<"m","e","d","k","i","t">>, <<"s","t","i","m">>, <<"h","e","a","l">>,
                   <<"f","o","o","d">>, <<"d","r","i","n","k">>,
                   <<"c","o","n","s","u","m","a","b","l","e">> >>
kwTool == << <<"t","o","o","l">>, <<"d","e","c","k">>, <<"d","e","v","i","c","e">>,
             <<"e","q","u","i","p","m","e","n","t">> >>

includesAny(s, kws) == \E i \in 1..Len(kws) : includes(s, kws[i])

\* ---------------------------------------------------------------- inventory

Item(n, d, q, t) == [name |-> n, description |-> d, quantity |-> q, type |-> t]

\* A type inference that tests the cyberware keywords before the weapon ones.
itemTypeCyberwareFirst(itemName) ==
    LET lowerName == toLowerCase(itemName) IN
    IF includesAny(lowerName, kwCyberware) THEN "cyberware"
    ELSE IF includesAny(lowerName, kwWeapon) THEN "weapon"
    ELSE IF includesAny(lowerName, kwConsumable) THEN "consumable"
    ELSE IF includesAny(lowerName, kwTool) THEN "tool"
    ELSE "misc"

\* routes/story.ts, processInventoryChanges: the type of a new item.
itemType(itemName) ==
    LET lowerName == toLowerCase(itemName) IN
    IF includesAny(lowerName, kwWeapon) THEN "weapon"
    ELSE IF includesAny(lowerName, kwCyberware) THEN "cyberware"
    ELSE IF includesAny(lowerName, kwConsumable) THEN "consumable"
    ELSE IF includesAny(lowerName, kwTool) THEN "tool"
    ELSE "misc"

\* A lookup that compares the names as written.
findIndexCaseSensitive(inventory, itemName) ==
    LET hits == {i \in 1..Len(inventory) : inventory[i].name = itemName}
    IN IF hits = {} THEN 0 ELSE CHOOSE i \in hits : \A j \in hits : i <= j

\* Array.prototype.findIndex by lower-cased name; 0 stands for -1.
findIndex(inventory, itemName) ==
    LET hits == {i \in 1..Len(inventory) :
                    toLowerCase(inventory[i].name) = toLowerCase(itemName)}
    IN IF hits = {} THEN 0 ELSE CHOOSE i \in hits : \A j \in hits : i <= j

\* Array.prototype.splice(index, 1)
splice(inventory, index) ==
    SubSeq(inventory, 1, index - 1) \o SubSeq(inventory, index + 1, Len(inventory))

\* An acquisition that pushes a new entry without looking the name up.
acquireAlwaysPush(inventory, itemName) ==
    Append(inventory, Item(itemName, "Acquired", 1, itemType(itemName)))

\* An acquisition that rebuilds the entry it finds from the directive's name.
acquireRebuild(inventory, itemName) ==
    LET existingIndex == findIndex(inventory, itemName)
    IN IF existingIndex > 0
       THEN [inventory EXCEPT ![existingIndex] =
                Item(itemName, "Acquired", @.quantity + 1, itemType(itemName))]
       ELSE Append(inventory, Item(itemName, "Acquired", 1, itemType(itemName)))

\* processInventoryChanges, the "+" branch: increment the entry found, or push
\* a new one.
acquire(inventory, itemName) ==
    LET existingIndex == findIndex(inventory, itemName)
    IN IF existingIndex > 0
       THEN [inventory EXCEPT ![existingIndex].quantity = @ + 1]
       ELSE Append(inventory, Item(itemName, "Acquired", 1, itemType(itemName)))

\* A loss without the existingIndex >= 0 test: for a name not held,
\* splice(-1, 1) removes the last entry.
loseUnguarded(inventory, itemName) ==
    LET existingIndex == findIndex(inventory, itemName)
    IN IF existingIndex > 0
       THEN IF inventory[existingIndex].quantity > 1
            THEN [inventory EXCEPT ![existingIndex].quantity = @ - 1]
            ELSE splice(inventory, existingIndex)
       ELSE IF Len(inventory) > 0 THEN splice(inventory, Len(inventory))
       ELSE inventory

\* A loss that always decrements and never removes the entry.
loseKeepsEntry(inventory, itemName) ==
    LET existingIndex == findIndex(inventory, itemName)
    IN IF existingIndex > 0
       THEN [inventory EXCEPT ![existingIndex].quantity = @ - 1]
       ELSE inventory

\* processInventoryChanges, the "-" branch: decrement the entry found, or
\* splice it out at quantity 1.
lose(inventory, itemName) ==
    LET existingIndex == findIndex(inventory, itemName)
    IN IF existingIndex > 0
       THEN IF inventory[existingIndex].quantity > 1
            THEN [inventory EXCEPT ![existingIndex].quantity = @ - 1]
            ELSE splice(inventory, existingIndex)
       ELSE inventory

\* One iteration of the loop of processInventoryChanges.
applyChange(inventory, change) ==
    IF startsWith(change, "+") THEN acquire(inventory, trim(substring1(change)))
    ELSE IF startsWith(change, "-") THEN lose(inventory, trim(substring1(change)))
    ELSE inventory

RECURSIVE processInventoryChanges(_, _)
processInventoryChanges(inventory, inventoryChanges) ==
    IF inventoryChanges = <<>> THEN inventory
    ELSE processInventoryChanges(applyChange(inventory, Head(inventoryChanges)),
                                 Tail(inventoryChanges))

\* ------------------------------------------------------------------- inputs

Users == {"u1", "u2"}
\* The account that creates the character.
Owner == "u1"

Trades == { <<"S","o","l","o">>, <<"M","e","d","i","c">> }

\* healthChange, moneyChange values a narrative response can carry.
HealthChanges == {-150, -30, 20}
MoneyChanges == {-600, 100}

\* inventoryChanges arrays a narrative response can carry.
InventoryChangeLists ==
    { << <<"+","M","e","d","k","i","t">> >>,
      << <<"-","P","i","s","t","o","l">> >>,
      << <<"+","p","i","s","t","o","l">>, <<"-","S","t","i","m">> >> }

\* An optional JSON field: <<>> is undefined, <<v>> is the value v.
Optional(S) == {<<>>} \cup {<<v>> : v \in S}
IsDefined(o) == o # <<>>
ValueOf(o) == o[1]

\* The JSON objects parsed from the narrative provider's text for an action:
\* the empty object of a parse failure, every object that carries a scene and
\* at most one of the three deltas (the deltas are applied independently), and
\* the objects that carry all three.
RawActionResponses ==
    {o \in [healthChange : Optional(HealthChanges),
            moneyChange : Optional(MoneyChanges),
            inventoryChanges : Optional(InventoryChangeLists),
            nextScene : Optional({"street"})] :
        LET n == Cardinality({f \in {"healthChange", "moneyChange", "inventoryChanges"} :
                                 IsDefined(o[f])})
        IN \/ n = 0
           \/ n = 1 /\ IsDefined(o.nextScene)
           \/ /\ n = 3 /\ IsDefined(o.nextScene)
              /\ o.moneyChange = <<-600>>
              /\ o.inventoryChanges = << << <<"+","M","e","d","k","i","t">> >> >>}

CombatOutcomes == {"victory", "defeat", "escape"}
CombatStatuses == {"alive", "injured", "dead"}
MaxInjuries == 1

\* The JSON object parsed from the narrative provider's text for a combat.
RawCombatResponses ==
    [outcome : Optional(CombatOutcomes),
     characterInjuries : Optional(0..MaxInjuries),
     characterStatus : Optional(CombatStatuses)]

\* How a provider call ends: a parsed response, an error that is answered
\* with the fallback, or an authentication / rate-limit error that is thrown.
ProviderResults == {"ok", "fallback", "throw"}

\* -------------------------------------------------------------------- state

Slots == 1..MaxConcurrent

VARIABLES
    characters,     \* the characters table: the row of the one character id
    story_events,   \* the story_events table: the ids of the rows
    nextEventId,    \* the next id uuidv4() returns
    pc,             \* per slot: where the request's handler stands
    kind,           \* per slot: which handler runs
    row,            \* per slot: rows[0] as returned by the SELECT
    character,      \* per slot: the handler's character object
    storyResponse,  \* per slot: the StoryResponse / CombatResolution
    updatedCharacter, \* per slot: the value applyStoryChanges returned
    response,       \* the HTTP response sent last
    started,        \* story requests begun so far
    patches         \* status requests begun so far

vars == <<characters, story_events, nextEventId, pc, kind, row, character,
          storyResponse, updatedCharacter, response, started, patches>>

NoRow ==
    [exists |-> FALSE, player_id |-> "", trade |-> <<>>, status |-> "",
     story_history |-> <<>>,
     inventory |-> <<>>, money |-> 0, health |-> 0, max_health |-> 0,
     current_scene |-> "", portrait_hash |-> <<>>, portrait_url |-> <<>>]

NoCharacter ==
    [playerId |-> "", status |-> "", storyHistory |-> <<>>, inventory |-> <<>>,
     money |-> 0, health |-> 0, maxHealth |-> 0, currentScene |-> ""]

NoStoryResponse ==
    [healthChange |-> <<>>, moneyChange |-> <<>>, inventoryChanges |-> <<>>,
     nextScene |-> <<>>, outcome |-> "", injuries |-> 0, characterStatus |-> ""]

NoResponse ==
    [code |-> 0, characterHealth |-> 0, characterMoney |-> 0,
     characterStatus |-> "", healthChange |-> 0, portraitUrl |-> <<>>]

ErrorResponse(code) == [NoResponse EXCEPT !.code = code]

\* JavaScript's a || b on numbers: 0 is falsy.
OrDefault(a, b) == IF a = 0 THEN b ELSE a

Max(a, b) == IF a >= b THEN a ELSE b
Min(a, b) == IF a <= b THEN a ELSE b

\* A starting inventory that tests the medic keywords before the others.
getStartingInventoryMedicFirst(trade) ==
    LET tradeLower == toLowerCase(trade)
        base == << Item(<<"B","a","s","i","c"," ","C","o","m","m","l","i","n","k">>,
                        "Standard communication device", 1, "tool"),
                   Item(<<"S","t","r","e","e","t"," ","C","l","o","t","h","e","s">>,
                        "Basic clothing", 1, "misc") >>
    IN
    IF \/ includes(tradeLower, <<"m","e","d","i","c">>)
       \/ includes(tradeLower, <<"d","o","c","t","o","r">>)
    THEN base \o << Item(<<"M","e","d","k","i","t">>, "Medical supplies", 1, "tool"),
                    Item(<<"S","t","i","m">>, "Healing stimulant", 2, "consumable") >>
    ELSE IF \/ includes(tradeLower, <<"s","o","l","o">>)
            \/ includes(tradeLower, <<"c","o","m","b","a","t">>)
            \/ includes(tradeLower, <<"f","i","g","h","t","e","r">>)
    THEN base \o << Item(<<"P","i","s","t","o","l">>, "Standard handgun", 1, "weapon"),
                    Item(<<"A","m","m","o">>, "Pistol ammunition", 30, "consumable"),
                    Item(<<"C","o","m","b","a","t"," ","K","n","i","f","e">>,
                         "Melee weapon", 1, "weapon") >>
    ELSE IF \/ includes(tradeLower, <<"n","e","t","r","u","n","n","e","r">>)
            \/ includes(tradeLower, <<"h","a","c","k">>)
            \/ includes(tradeLower, <<"t","e","c","h">>)
    THEN base \o << Item(<<"C","y","b","e","r","d","e","c","k">>, "Hacking interface", 1, "tool"),
                    Item(<<"D","a","t","a"," ","S","h","a","r","d">>, "Hacking tool", 3,
                         "consumable") >>
    ELSE IF \/ includes(tradeLower, <<"f","i","x","e","r">>)
            \/ includes(tradeLower, <<"d","e","a","l","e","r">>)
    THEN base \o << Item(<<"C","o","n","t","a","c","t","s"," ","L","i","s","t">>,
                         "Network of connections", 1, "misc"),
                    Item(<<"C","r","e","d","s","t","i","c","k">>,
                         "Digital currency storage", 1, "tool") >>
    ELSE base

\* routes/characters.ts, getStartingInventory
getStartingInventory(trade) ==
    LET tradeLower == toLowerCase(trade)
        base == << Item(<<"B","a","s","i","c"," ","C","o","m","m","l","i","n","k">>,
                        "Standard communication device", 1, "tool"),
                   Item(<<"S","t","r","e","e","t"," ","C","l","o","t","h","e","s">>,
                        "Basic clothing", 1, "misc") >>
    IN
    IF \/ includes(tradeLower, <<"s","o","l","o">>)
       \/ includes(tradeLower, <<"c","o","m","b","a","t">>)
       \/ includes(tradeLower, <<"f","i","g","h","t","e","r">>)
    THEN base \o << Item(<<"P","i","s","t","o","l">>, "Standard handgun", 1, "weapon"),
                    Item(<<"A","m","m","o">>, "Pistol ammunition", 30, "consumable"),
                    Item(<<"C","o","m","b","a","t"," ","K","n","i","f","e">>,
                         "Melee weapon", 1, "weapon") >>
    ELSE IF \/ includes(tradeLower, <<"n","e","t","r","u","n","n","e","r">>)
            \/ includes(tradeLower, <<"h","a","c","k">>)
            \/ includes(tradeLower, <<"t","e","c","h">>)
    THEN base \o << Item(<<"C","y","b","e","r","d","e","c","k">>, "Hacking interface", 1, "tool"),
                    Item(<<"D","a","t","a"," ","S","h","a","r","d">>, "Hacking tool", 3,
                         "consumable") >>
    ELSE IF \/ includes(tradeLower, <<"f","i","x","e","r">>)
            \/ includes(tradeLower, <<"d","e","a","l","e","r">>)
    THEN base \o << Item(<<"C","o","n","t","a","c","t","s"," ","L","i","s","t">>,
                         "Network of connections", 1, "misc"),
                    Item(<<"C","r","e","d","s","t","i","c","k">>,
                         "Digital currency storage", 1, "tool") >>
    ELSE IF \/ includes(tradeLower, <<"m","e","d","i","c">>)
            \/ includes(tradeLower, <<"d","o","c","t","o","r">>)
    THEN base \o << Item(<<"M","e","d","k","i","t">>, "Medical supplies", 1, "tool"),
                    Item(<<"S","t","i","m">>, "Healing stimulant", 2, "consumable") >>
    ELSE base

\* A loader that gives every character the status of a new one.
LoadCharacterAlive(r) ==
    [playerId |-> r.player_id,
     status |-> "alive",
     storyHistory |-> r.story_history,
     inventory |-> r.inventory,
     money |-> OrDefault(r.money, DefaultMoney),
     health |-> OrDefault(r.health, DefaultHealth),
     maxHealth |-> OrDefault(r.max_health, DefaultMaxHealth),
     currentScene |-> r.current_scene]

\* The Character object every handler builds from rows[0].
LoadCharacter(r) ==
    [playerId |-> r.player_id,
     status |-> r.status,
     storyHistory |-> r.story_history,
     inventory |-> r.inventory,
     money |-> OrDefault(r.money, DefaultMoney),
     health |-> OrDefault(r.health, DefaultHealth),
     maxHealth |-> OrDefault(r.max_health, DefaultMaxHealth),
     currentScene |-> r.current_scene]

Init ==
    /\ characters = NoRow
    /\ story_events = {}
    /\ nextEventId = 1
    /\ pc = [s \in Slots |-> "idle"]
    /\ kind = [s \in Slots |-> "none"]
    /\ row = [s \in Slots |-> NoRow]
    /\ character = [s \in Slots |-> NoCharacter]
    /\ storyResponse = [s \in Slots |-> NoStoryResponse]
    /\ updatedCharacter = [s \in Slots |-> NoCharacter]
    /\ response = NoResponse
    /\ started = 0
    /\ patches = 0

\* ------------------------------------------------------- narrative provider

\* services/aiService.ts, processPlayerAction: the StoryResponse returned for
\* a parsed response (missing or zero fields default with ||) or the fallback.
processPlayerAction(result, raw, currentScene) ==
    IF result = "ok"
    THEN [NoStoryResponse EXCEPT
            !.healthChange = IF IsDefined(raw.healthChange) THEN raw.healthChange ELSE <<0>>,
            !.moneyChange = IF IsDefined(raw.moneyChange) THEN raw.moneyChange ELSE <<0>>,
            !.inventoryChanges =
                IF IsDefined(raw.inventoryChanges) THEN raw.inventoryChanges ELSE << <<>> >>,
            !.nextScene = IF IsDefined(raw.nextScene) THEN raw.nextScene ELSE <<currentScene>>]
    ELSE [NoStoryResponse EXCEPT !.nextScene = <<currentScene>>]

\* services/aiService.ts, resolveCombat: the CombatResolution returned.
resolveCombat(result, raw) ==
    IF result = "ok"
    THEN [NoStoryResponse EXCEPT
            !.outcome = IF IsDefined(raw.outcome) THEN ValueOf(raw.outcome) ELSE "victory",
            !.injuries =
                IF IsDefined(raw.characterInjuries) THEN ValueOf(raw.characterInjuries) ELSE 0,
            !.characterStatus =
                IF IsDefined(raw.characterStatus) THEN ValueOf(raw.characterStatus) ELSE "alive"]
    ELSE [NoStoryResponse EXCEPT !.outcome = "victory", !.injuries = 0,
                                 !.characterStatus = "alive"]

\* services/aiService.ts, generateStoryScenario: nextScene of the StoryResponse.
generateStoryScenario(result, raw) ==
    IF result = "ok" /\ IsDefined(raw.nextScene)
    THEN [NoStoryResponse EXCEPT !.nextScene = raw.nextScene]
    ELSE [NoStoryResponse EXCEPT !.nextScene = <<"street">>]

\* ------------------------------------------------------------- the mutator

\* A health update that does not cap at maxHealth.
clampHealthNoCap(h, maxHealth) == Max(0, h)

\* routes/story.ts, applyStoryChanges: Math.max(0, Math.min(maxHealth, h)).
clampHealth(h, maxHealth) == Max(0, Min(maxHealth, h))

\* A money update that does not floor at 0.
floorMoneyNoFloor(m) == m

\* routes/story.ts, applyStoryChanges: Math.max(0, m).
floorMoney(m) == Max(0, m)

\* A mutator that returns the four new values without the fields of the
\* character it was given.
applyStoryChangesNoSpread(c, sr) ==
    LET health0 == OrDefault(c.health, DefaultHealth)
        money0 == OrDefault(c.money, DefaultMoney)
        newHealth ==
            IF IsDefined(sr.healthChange)
            THEN clampHealth(health0 + ValueOf(sr.healthChange),
                             OrDefault(c.maxHealth, DefaultMaxHealth))
            ELSE health0
        newStatus ==
            IF IsDefined(sr.healthChange) /\ newHealth <= 0 THEN "dead" ELSE c.status
        newMoney ==
            IF IsDefined(sr.moneyChange)
            THEN floorMoney(money0 + ValueOf(sr.moneyChange))
            ELSE money0
        newInventory ==
            IF IsDefined(sr.inventoryChanges) /\ Len(ValueOf(sr.inventoryChanges)) > 0
            THEN processInventoryChanges(c.inventory, ValueOf(sr.inventoryChanges))
            ELSE c.inventory
    IN [NoCharacter EXCEPT !.health = newHealth, !.money = newMoney,
                 !.inventory = newInventory, !.status = newStatus]

\* routes/story.ts, applyStoryChanges: the character it returns, whose
\* health, money, inventory and status it writes.
applyStoryChanges(c, sr) ==
    LET health0 == OrDefault(c.health, DefaultHealth)
        money0 == OrDefault(c.money, DefaultMoney)
        newHealth ==
            IF IsDefined(sr.healthChange)
            THEN clampHealth(health0 + ValueOf(sr.healthChange),
                             OrDefault(c.maxHealth, DefaultMaxHealth))
            ELSE health0
        newStatus ==
            IF IsDefined(sr.healthChange) /\ newHealth <= 0 THEN "dead" ELSE c.status
        newMoney ==
            IF IsDefined(sr.moneyChange)
            THEN floorMoney(money0 + ValueOf(sr.moneyChange))
            ELSE money0
        newInventory ==
            IF IsDefined(sr.inventoryChanges) /\ Len(ValueOf(sr.inventoryChanges)) > 0
            THEN processInventoryChanges(c.inventory, ValueOf(sr.inventoryChanges))
            ELSE c.inventory
    IN [c EXCEPT !.health = newHealth, !.money = newMoney,
                 !.inventory = newInventory, !.status = newStatus]

\* routes/story.ts, combat handler: healthChange from the resolution.
combatHealthChange(c, cr) ==
    IF cr.characterStatus = "dead" THEN 0 - c.health
    ELSE IF cr.characterStatus = "injured"
         THEN 0 - (InjuredBaseDamage + cr.injuries * InjuryDamage)
    ELSE IF cr.outcome = "defeat" THEN 0 - DefeatDamage
    ELSE IF cr.outcome = "victory" THEN 0 - VictoryDamage
    ELSE 0 - DefaultDamage

\* routes/story.ts, combat handler: newHealth and newStatus of the final write.
combatResult(c, cr) ==
    LET h == Max(0, c.health + combatHealthChange(c, cr))
    IN IF h <= 0 \/ cr.characterStatus = "dead"
       THEN [health |-> 0, status |-> "dead"]
       ELSE [health |-> h, status |-> c.status]

\* ----------------------------------------------------------------- handlers

StoryKinds == {"scenario", "action", "combat"}

\* The request's response is sent and its locals go out of scope.
Finish(s, resp) ==
    /\ pc' = [pc EXCEPT ![s] = "idle"]
    /\ kind' = [kind EXCEPT ![s] = "none"]
    /\ row' = [row EXCEPT ![s] = NoRow]
    /\ character' = [character EXCEPT ![s] = NoCharacter]
    /\ storyResponse' = [storyResponse EXCEPT ![s] = NoStoryResponse]
    /\ updatedCharacter' = [updatedCharacter EXCEPT ![s] = NoCharacter]
    /\ response' = resp

\* A new request is served by the lowest free slot.
FreeSlot(s) == pc[s] = "idle" /\ \A t \in Slots : t < s => pc[t] # "idle"

\* A creation whose INSERT passes the starting money and the starting health
\* in each other's place.
CreateCharacterSwapped(trade) ==
    /\ ~characters.exists
    /\ IF trade = <<>>
       THEN /\ response' = ErrorResponse(400)
            /\ UNCHANGED characters
       ELSE /\ characters' =
                  [exists |-> TRUE, player_id |-> Owner, trade |-> trade,
                   status |-> "alive", story_history |-> <<>>,
                   inventory |-> getStartingInventory(trade),
                   money |-> StartingHealth, health |-> StartingMoney,
                   max_health |-> StartingMaxHealth, current_scene |-> "initial",
                   portrait_hash |-> <<>>, portrait_url |-> <<>>]
            /\ UNCHANGED response
    /\ UNCHANGED <<story_events, nextEventId, pc, kind, row, character,
                   storyResponse, updatedCharacter, started, patches>>

\* routes/characters.ts, POST /: a request without a trade is rejected;
\* otherwise the character is inserted.
CreateCharacter(trade) ==
    /\ ~characters.exists
    /\ IF trade = <<>>
       THEN /\ response' = ErrorResponse(400)
            /\ UNCHANGED characters
       ELSE /\ characters' =
                  [exists |-> TRUE, player_id |-> Owner, trade |-> trade,
                   status |-> "alive", story_history |-> <<>>,
                   inventory |-> getStartingInventory(trade),
                   money |-> StartingMoney, health |-> StartingHealth,
                   max_health |-> StartingMaxHealth, current_scene |-> "initial",
                   portrait_hash |-> <<>>, portrait_url |-> <<>>]
            /\ UNCHANGED response
    /\ UNCHANGED <<story_events, nextEventId, pc, kind, row, character,
                   storyResponse, updatedCharacter, started, patches>>

\* A dead check that looks at the health instead of the status.
isDeadByHealth(c) == c.health <= 0

\* The dead check of the story handlers.
isDead(c) == c.status = "dead"

\* routes/story.ts, the three handlers up to the provider call: SELECT the
\* row, 404, 403, build the character, reject a dead one.  The request body
\* carries the fields the handler requires (action; combatScenario and
\* playerTactics).
BeginStory(s, k, u) ==
    /\ FreeSlot(s)
    /\ started < MaxRequests
    /\ started' = started + 1
    /\ UNCHANGED <<characters, story_events, nextEventId, patches>>
    /\ IF ~characters.exists THEN Finish(s, ErrorResponse(404))
       ELSE IF characters.player_id # u THEN Finish(s, ErrorResponse(403))
       ELSE IF isDead(LoadCharacter(characters)) THEN Finish(s, ErrorResponse(400))
       ELSE /\ pc' = [pc EXCEPT ![s] = "ai"]
            /\ kind' = [kind EXCEPT ![s] = k]
            /\ row' = [row EXCEPT ![s] = characters]
            /\ character' = [character EXCEPT ![s] = LoadCharacter(characters)]
            /\ UNCHANGED response
            /\ UNCHANGED <<storyResponse, updatedCharacter>>

\* An authentication or rate-limit error of the provider is thrown: 500.
ProviderThrows(s) ==
    /\ pc[s] = "ai"
    /\ Finish(s, ErrorResponse(500))
    /\ UNCHANGED <<characters, story_events, nextEventId, started, patches>>

\* POST /:characterId/scenario: the scenario arrives, current_story_state is
\* written (nextScene is never empty).
ScenarioGenerate(s, result, raw) ==
    /\ pc[s] = "ai" /\ kind[s] = "scenario"
    /\ LET sr == generateStoryScenario(result, raw) IN
       /\ storyResponse' = [storyResponse EXCEPT ![s] = sr]
       /\ character' = [character EXCEPT ![s].currentScene = ValueOf(sr.nextScene)]
       /\ characters' = [characters EXCEPT !.current_scene = ValueOf(sr.nextScene)]
    /\ pc' = [pc EXCEPT ![s] = "event"]
    /\ UNCHANGED <<story_events, nextEventId, kind, row, updatedCharacter,
                   response, started, patches>>

\* POST /:characterId/action: the outcome arrives; the scene is set locally.
\* The image generation that follows touches neither table, whether it
\* succeeds or fails.
ActionProcess(s, result, raw) ==
    /\ pc[s] = "ai" /\ kind[s] = "action"
    /\ LET sr == processPlayerAction(result, raw, character[s].currentScene) IN
       /\ storyResponse' = [storyResponse EXCEPT ![s] = sr]
       /\ character' = [character EXCEPT ![s].currentScene = ValueOf(sr.nextScene)]
    /\ pc' = [pc EXCEPT ![s] = "event"]
    /\ UNCHANGED <<characters, story_events, nextEventId, kind, row,
                   updatedCharacter, response, started, patches>>

\* POST /:characterId/combat: the resolution arrives; a dead character's
\* status is written at once.
CombatResolve(s, result, raw) ==
    /\ pc[s] = "ai" /\ kind[s] = "combat"
    /\ LET cr == resolveCombat(result, raw) IN
       /\ storyResponse' = [storyResponse EXCEPT ![s] = cr]
       /\ IF cr.characterStatus = "dead"
          THEN /\ character' = [character EXCEPT ![s].status = "dead"]
               /\ characters' = [characters EXCEPT !.status = "dead"]
          ELSE UNCHANGED <<character, characters>>
    /\ pc' = [pc EXCEPT ![s] = "event"]
    /\ UNCHANGED <<story_events, nextEventId, kind, row, updatedCharacter,
                   response, started, patches>>

\* All three handlers: INSERT INTO story_events, push onto storyHistory.
RecordEvent(s) ==
    /\ pc[s] = "event"
    /\ story_events' = story_events \cup {nextEventId}
    /\ nextEventId' = nextEventId + 1
    /\ character' = [character EXCEPT ![s].storyHistory = Append(@, nextEventId)]
    /\ pc' = [pc EXCEPT ![s] = CASE kind[s] = "scenario" -> "history"
                                 [] kind[s] = "action" -> "apply"
                                 [] OTHER -> "final"]
    /\ UNCHANGED <<characters, kind, row, storyResponse, updatedCharacter,
                   response, started, patches>>

\* POST /:characterId/scenario: UPDATE story_history; respond.
ScenarioSaveHistory(s) ==
    /\ pc[s] = "history"
    /\ characters' = [characters EXCEPT !.story_history = character[s].storyHistory]
    /\ Finish(s, [NoResponse EXCEPT !.code = 200])
    /\ UNCHANGED <<story_events, nextEventId, started, patches>>

\* applyStoryChanges: UPDATE health, money, inventory, status.
WriteStoryChanges(s) ==
    /\ pc[s] = "apply"
    /\ LET u == applyStoryChanges(character[s], storyResponse[s]) IN
       /\ characters' = [characters EXCEPT !.health = u.health, !.money = u.money,
                                           !.inventory = u.inventory, !.status = u.status]
       /\ updatedCharacter' = [updatedCharacter EXCEPT ![s] = u]
    /\ pc' = [pc EXCEPT ![s] = "final"]
    /\ UNCHANGED <<story_events, nextEventId, kind, row, character, storyResponse,
                   response, started, patches>>

\* POST /:characterId/action: UPDATE current_story_state, story_history,
\* health, money, inventory, status; respond with the new stats.
ActionFinalWrite(s) ==
    /\ pc[s] = "final" /\ kind[s] = "action"
    /\ LET u == updatedCharacter[s] IN
       /\ characters' = [characters EXCEPT
                            !.current_scene = u.currentScene,
                            !.story_history = u.storyHistory,
                            !.health = u.health, !.money = u.money,
                            !.inventory = u.inventory, !.status = u.status]
       /\ Finish(s, [NoResponse EXCEPT !.code = 200, !.characterHealth = u.health,
                     !.characterMoney = u.money, !.characterStatus = u.status,
                     !.healthChange = 0])
    /\ UNCHANGED <<story_events, nextEventId, started, patches>>

\* A combat handler that ends with the six-column UPDATE of the action handler.
CombatFinalWriteAllColumns(s) ==
    /\ pc[s] = "final" /\ kind[s] = "combat"
    /\ LET u == combatResult(character[s], storyResponse[s]) IN
       /\ characters' = [characters EXCEPT
                            !.story_history = character[s].storyHistory,
                            !.health = u.health, !.status = u.status,
                            !.money = character[s].money,
                            !.inventory = character[s].inventory]
       /\ Finish(s, [NoResponse EXCEPT !.code = 200, !.characterHealth = u.health,
                     !.characterMoney = 0, !.characterStatus = u.status,
                     !.healthChange = combatHealthChange(character[s], storyResponse[s])])
    /\ UNCHANGED <<story_events, nextEventId, started, patches>>

\* POST /:characterId/combat: UPDATE story_history, health, status; respond.
CombatFinalWrite(s) ==
    /\ pc[s] = "final" /\ kind[s] = "combat"
    /\ LET u == combatResult(character[s], storyResponse[s]) IN
       /\ characters' = [characters EXCEPT
                            !.story_history = character[s].storyHistory,
                            !.health = u.health, !.status = u.status]
       /\ Finish(s, [NoResponse EXCEPT !.code = 200, !.characterHealth = u.health,
                     !.characterMoney = 0, !.characterStatus = u.status,
                     !.healthChange = combatHealthChange(character[s], storyResponse[s])])
    /\ UNCHANGED <<story_events, nextEventId, started, patches>>

\* routes/characters.ts, PATCH /:id/status up to the UPDATE: SELECT, 404, 403.
\* The body names one of the two statuses the handler accepts.
BeginPatch(s, u, status) ==
    /\ FreeSlot(s)
    /\ patches < MaxPatches
    /\ patches' = patches + 1
    /\ UNCHANGED <<characters, story_events, nextEventId, started>>
    /\ IF ~characters.exists THEN Finish(s, ErrorResponse(404))
       ELSE IF characters.player_id # u THEN Finish(s, ErrorResponse(403))
       ELSE /\ pc' = [pc EXCEPT ![s] = "patch"]
            /\ kind' = [kind EXCEPT ![s] = "patch"]
            /\ row' = [row EXCEPT ![s] = characters]
            /\ character' = [character EXCEPT ![s].status = status]
            /\ UNCHANGED response
            /\ UNCHANGED <<storyResponse, updatedCharacter>>

\* PATCH /:id/status: UPDATE characters SET status.
PatchWrite(s) ==
    /\ pc[s] = "patch"
    /\ characters' = [characters EXCEPT !.status = character[s].status]
    /\ Finish(s, [NoResponse EXCEPT !.code = 200])
    /\ UNCHANGED <<story_events, nextEventId, started, patches>>

Next ==
    \/ \E t \in Trades : CreateCharacter(t)
    \/ \E s \in Slots, k \in StoryKinds, u \in Users : BeginStory(s, k, u)
    \/ \E s \in Slots : ProviderThrows(s)
    \/ \E s \in Slots, res \in {"ok", "fallback"}, raw \in RawActionResponses :
          ScenarioGenerate(s, res, raw)
    \/ \E s \in Slots, res \in {"ok", "fallback"}, raw \in RawActionResponses :
          ActionProcess(s, res, raw)
    \/ \E s \in Slots, res \in {"ok", "fallback"}, raw \in RawCombatResponses :
          CombatResolve(s, res, raw)
    \/ \E s \in Slots : RecordEvent(s)
    \/ \E s \in Slots : ScenarioSaveHistory(s)
    \/ \E s \in Slots : WriteStoryChanges(s)
    \/ \E s \in Slots : ActionFinalWrite(s)
    \/ \E s \in Slots : CombatFinalWrite(s)
    \/ \E s \in Slots, u \in Users, st \in {"alive", "dead"} : BeginPatch(s, u, st)
    \/ \E s \in Slots : PatchWrite(s)

Spec == Init /\ [][Next]_vars

\* Story requests served one after the other, and no status requests.
AllIdle == \A s \in Slots : pc[s] = "idle"

NextSeq ==
    \/ \E t \in Trades : CreateCharacter(t)
    \/ \E s \in Slots, k \in StoryKinds, u \in Users : AllIdle /\ BeginStory(s, k, u)
    \/ \E s \in Slots : ProviderThrows(s)
    \/ \E s \in Slots, res \in {"ok", "fallback"}, raw \in RawActionResponses :
          ScenarioGenerate(s, res, raw)
    \/ \E s \in Slots, res \in {"ok", "fallback"}, raw \in RawActionResponses :
          ActionProcess(s, res, raw)
    \/ \E s \in Slots, res \in {"ok", "fallback"}, raw \in RawCombatResponses :
          CombatResolve(s, res, raw)
    \/ \E s \in Slots : RecordEvent(s)
    \/ \E s \in Slots : ScenarioSaveHistory(s)
    \/ \E s \in Slots : WriteStoryChanges(s)
    \/ \E s \in Slots : ActionFinalWrite(s)
    \/ \E s \in Slots : CombatFinalWrite(s)

SpecSeq == Init /\ [][NextSeq]_vars

\* Trade descriptions a player may enter: one keyword, keywords of two
\* groups, none, and the empty string.
TradeDescriptions ==
    { <<"S","o","l","o">>,
      <<"M","e","d","i","c">>,
      <<"N","e","t","r","u","n","n","e","r">>,
      <<"H","a","c","k","e","r">>,
      <<"C","o","m","b","a","t"," ","M","e","d","i","c">>,
      <<"M","e","d","i","c"," ","N","e","t","r","u","n","n","e","r">>,
      <<"S","o","l","o"," ","H","a","c","k","e","r">>,
      <<"N","o","m","a","d">>,
      <<>> }

\* Any trade description at creation, then story requests served one after
\* the other.
NextTrade ==
    \/ \E t \in TradeDescriptions : CreateCharacter(t)
    \/ \E s \in Slots, k \in StoryKinds, u \in Users : AllIdle /\ BeginStory(s, k, u)
    \/ \E s \in Slots : ProviderThrows(s)
    \/ \E s \in Slots, res \in {"ok", "fallback"}, raw \in RawActionResponses :
          ScenarioGenerate(s, res, raw)
    \/ \E s \in Slots, res \in {"ok", "fallback"}, raw \in RawActionResponses :
          ActionProcess(s, res, raw)
    \/ \E s \in Slots, res \in {"ok", "fallback"}, raw \in RawCombatResponses :
          CombatResolve(s, res, raw)
    \/ \E s \in Slots : RecordEvent(s)
    \/ \E s \in Slots : ScenarioSaveHistory(s)
    \/ \E s \in Slots : WriteStoryChanges(s)
    \/ \E s \in Slots : ActionFinalWrite(s)
    \/ \E s \in Slots : CombatFinalWrite(s)

SpecTrade == Init /\ [][NextTrade]_vars

\* database.ts, initDatabase: the columns of the characters table.
Columns ==
    {"id", "player_id", "background", "augmentations", "appearance", "trade",
     "optional_prompts", "full_description", "created_at", "current_story_state",
     "status", "story_history", "inventory", "money", "health", "max_health"}

kwClothing == << <<"c","l","o","t","h">>, <<"o","u","t","f","i","t">>,
                 <<"a","r","m","o","r">>, <<"j","a","c","k","e","t">>,
                 <<"s","h","i","r","t">>, <<"p","a","n","t","s">> >>

\* services/imageService.ts, getAppearanceHash: the digest of appearance,
\* augmentations (both fixed at creation) and the names of the clothing
\* items, which are the part that varies: the names of the entries of type
\* misc or with a clothing keyword in the name.
getAppearanceHash(c) ==
    {c.inventory[i].name :
        i \in {k \in 1..Len(c.inventory) :
                  \/ c.inventory[k].type = "misc"
                  \/ includesAny(toLowerCase(c.inventory[k].name), kwClothing)}}

\* routes/characters.ts, GET /:id: 404, 403, or the character.
ReadCharacter(u) ==
    /\ response' =
          IF ~characters.exists THEN ErrorResponse(404)
          ELSE IF characters.player_id # u THEN ErrorResponse(403)
          ELSE LET c == LoadCharacter(characters)
               IN [NoResponse EXCEPT !.code = 200, !.characterHealth = c.health,
                                     !.characterMoney = c.money,
                                     !.characterStatus = c.status]
    /\ UNCHANGED <<characters, story_events, nextEventId, pc, kind, row, character,
                   storyResponse, updatedCharacter, started, patches>>

\* routes/characters.ts, GET /:id/portrait: 404; the cached URL when the
\* stored hash is the current one; otherwise a generation and the UPDATE of
\* current_story_state (portraitHash) and portrait_url.  The row has the
\* columns of the table, and an UPDATE that names another column is rejected
\* and caught: 500.
Portrait(u, forceRegenerate, generated) ==
    /\ IF ~characters.exists
       THEN response' = ErrorResponse(404) /\ UNCHANGED characters
       ELSE LET c == LoadCharacter(characters)
                currentHash == getAppearanceHash(c)
                storedHash == characters.portrait_hash
                cachedPortraitUrl ==
                    IF "portrait_url" \in Columns THEN characters.portrait_url
                    ELSE <<>>
                portraitUrl == <<"portrait", currentHash>>
            IN IF \/ forceRegenerate
                  \/ ~IsDefined(storedHash)
                  \/ ValueOf(storedHash) # currentHash
                  \/ ~IsDefined(cachedPortraitUrl)
               THEN IF ~generated
                    THEN response' = ErrorResponse(500) /\ UNCHANGED characters
                    ELSE IF "portrait_url" \in Columns
                    THEN /\ characters' =
                              [characters EXCEPT !.portrait_hash = <<currentHash>>,
                                                 !.portrait_url = <<portraitUrl>>]
                         /\ response' = [NoResponse EXCEPT
                                            !.code = 200,
                                            !.portraitUrl = <<portraitUrl>>]
                    ELSE response' = ErrorResponse(500) /\ UNCHANGED characters
               ELSE /\ response' = [NoResponse EXCEPT
                                       !.code = 200,
                                       !.portraitUrl = cachedPortraitUrl]
                    /\ UNCHANGED characters
    /\ UNCHANGED <<story_events, nextEventId, pc, kind, row, character,
                   storyResponse, updatedCharacter, started, patches>>

\* Every route of the character and story routers, the requests that write
\* served one after the other.
NextAccess ==
    \/ \E t \in Trades : CreateCharacter(t)
    \/ \E u \in Users : ReadCharacter(u)
    \/ \E u \in Users, f \in BOOLEAN, g \in BOOLEAN : Portrait(u, f, g)
    \/ \E s \in Slots, u \in Users, st \in {"alive", "dead"} :
          AllIdle /\ BeginPatch(s, u, st)
    \/ \E s \in Slots : PatchWrite(s)
    \/ \E s \in Slots, k \in StoryKinds, u \in Users : AllIdle /\ BeginStory(s, k, u)
    \/ \E s \in Slots : ProviderThrows(s)
    \/ \E s \in Slots, res \in {"ok", "fallback"}, raw \in RawActionResponses :
          ScenarioGenerate(s, res, raw)
    \/ \E s \in Slots, res \in {"ok", "fallback"}, raw \in RawActionResponses :
          ActionProcess(s, res, raw)
    \/ \E s \in Slots, res \in {"ok", "fallback"}, raw \in RawCombatResponses :
          CombatResolve(s, res, raw)
    \/ \E s \in Slots : RecordEvent(s)
    \/ \E s \in Slots : ScenarioSaveHistory(s)
    \/ \E s \in Slots : WriteStoryChanges(s)
    \/ \E s \in Slots : ActionFinalWrite(s)
    \/ \E s \in Slots : CombatFinalWrite(s)

SpecAccess == Init /\ [][NextAccess]_vars

\* A character left without money: the state after POST /characters for a
\* Solo and one action whose outcome is { moneyChange: -600, nextScene:
\* "street" }; requests are counted from there, and only actions follow.
InitBroke ==
    /\ characters =
          [exists |-> TRUE, player_id |-> Owner, trade |-> <<"S","o","l","o">>,
           status |-> "alive", story_history |-> <<1>>,
           inventory |-> getStartingInventory(<<"S","o","l","o">>),
           money |-> 0, health |-> StartingHealth,
           max_health |-> StartingMaxHealth, current_scene |-> "street",
           portrait_hash |-> <<>>, portrait_url |-> <<>>]
    /\ story_events = {1}
    /\ nextEventId = 2
    /\ pc = [s \in Slots |-> "idle"]
    /\ kind = [s \in Slots |-> "none"]
    /\ row = [s \in Slots |-> NoRow]
    /\ character = [s \in Slots |-> NoCharacter]
    /\ storyResponse = [s \in Slots |-> NoStoryResponse]
    /\ updatedCharacter = [s \in Slots |-> NoCharacter]
    /\ response = [NoResponse EXCEPT !.code = 200, !.characterHealth = StartingHealth,
                   !.characterMoney = 0, !.characterStatus = "alive",
                   !.healthChange = 0]
    /\ started = 0
    /\ patches = 0

NextActions ==
    \/ \E s \in Slots, u \in Users : BeginStory(s, "action", u)
    \/ \E s \in Slots : ProviderThrows(s)
    \/ \E s \in Slots, res \in {"ok", "fallback"}, raw \in RawActionResponses :
          ActionProcess(s, res, raw)
    \/ \E s \in Slots : RecordEvent(s)
    \/ \E s \in Slots : WriteStoryChanges(s)
    \/ \E s \in Slots : ActionFinalWrite(s)

SpecBroke == InitBroke /\ [][NextActions]_vars

\* The directive strings an outcome may carry: acquisitions and losses of
\* items held and not held, in other letter cases and with blanks around the
\* name, names with keywords of several categories, a prefix with no name and
\* a string with no prefix.
Directives ==
    { <<"+","M","e","d","k","i","t">>,
      <<"+","p","i","s","t","o","l">>,
      <<"+"," ","P","I","S","T","O","L">>,
      <<"+","G","u","n"," ","M","o","d">>,
      <<"+","S","t","i","m"," ","I","m","p","l","a","n","t">>,
      <<"+","H","e","a","l"," ","D","e","c","k">>,
      <<"+"," ","R","o","p","e"," ">>,
      <<"-","P","i","s","t","o","l">>,
      <<"-","s","t","i","m">>,
      <<"+">>,
      <<"-">>,
      <<"M","e","d","k","i","t">> }

MaxDirectives == 2

DirectiveLists ==
    UNION {[1..n -> Directives] : n \in 1..MaxDirectives}

MaxApplies == 2

\* applyStoryChanges called on the stored character with an outcome that
\* carries only inventoryChanges; the record read and the outcome are kept.
ApplyDirectives(l) ==
    /\ characters.exists
    /\ started < MaxApplies
    /\ started' = started + 1
    /\ LET sr == [NoStoryResponse EXCEPT !.inventoryChanges = <<l>>]
           u == applyStoryChanges(LoadCharacter(characters), sr)
       IN /\ row' = [row EXCEPT ![1] = characters]
          /\ storyResponse' = [storyResponse EXCEPT ![1] = sr]
          /\ characters' = [characters EXCEPT !.health = u.health, !.money = u.money,
                                              !.inventory = u.inventory,
                                              !.status = u.status]
    /\ UNCHANGED <<story_events, nextEventId, pc, kind, character,
                   updatedCharacter, response, patches>>

NextInv ==
    \/ \E t \in Trades : CreateCharacter(t)
    \/ \E l \in DirectiveLists : ApplyDirectives(l)

SpecInv == Init /\ [][NextInv]_vars

\* ------------------------------------------------------------------- claims

\* The four fields an outcome replaces.
Stats(r) == [health |-> r.health, money |-> r.money, inventory |-> r.inventory,
             status |-> r.status]

\* An absent delta counts as 0.
DeltaOf(o) == IF IsDefined(o) THEN ValueOf(o) ELSE 0

\* Slot s has applied its outcome and not yet sent its response.
Applied(s) == pc[s] = "final" /\ kind[s] = "action"

\* C1: once the persisted status is dead, no sequence of further scenario,
\* action or combat requests, served one after the other, makes it alive again.
C1_DeathMonotonic ==
    [][characters.status = "dead" => characters'.status = "dead"]_vars

\* C1 witness: the character is dead and a later request has been turned away.
C1_Witness ==
    /\ characters.status = "dead" /\ characters.health = 0
    /\ started >= 2 /\ response.code = 400

\* C2: the only status transition of the whole system is alive -> dead, and it
\* fires exactly when the health reaches 0: no step moves a character out of
\* dead, and once every request has finished the character is dead exactly when
\* its health is 0.
C2_OnlyAliveToDeadAtZero ==
    [][characters.exists =>
         /\ characters.status = "dead" => characters'.status = "dead"
         /\ AllIdle' => (characters'.status = "dead" <=> characters'.health = 0)]_vars

\* C3: the persisted health h always satisfies 0 <= h <= maxHealth.
C3_HealthBounds ==
    characters.exists =>
        0 <= characters.health /\ characters.health <= characters.max_health

\* C3 witness: a healing that would exceed maxHealth has been written capped.
C3_Witness ==
    \E s \in Slots :
        /\ Applied(s)
        /\ storyResponse[s].healthChange = <<20>>
        /\ character[s].health + 20 > character[s].maxHealth
        /\ characters.health = characters.max_health

\* C4: an action that read money m and carries moneyChange d (absent: 0)
\* writes money max(0, m + d), for every m >= 0.
C4_MoneyExact ==
    \A s \in Slots :
        Applied(s) =>
            updatedCharacter[s].money =
                Max(0, row[s].money + DeltaOf(storyResponse[s].moneyChange))

\* C5: the persisted money is never negative.
C5_MoneyFloor == characters.exists => characters.money >= 0

\* C5 witness: a loss larger than the money held has been written as 0.
C5_Witness ==
    \E s \in Slots :
        /\ Applied(s)
        /\ IsDefined(storyResponse[s].moneyChange)
        /\ character[s].money + ValueOf(storyResponse[s].moneyChange) < 0
        /\ characters.money = 0

\* C6: an outcome with healthChange, moneyChange and inventoryChanges all
\* absent writes back the health, money, inventory and status that were read.
C6_EmptyOutcomeNoOp ==
    \A s \in Slots :
        ( /\ Applied(s)
          /\ ~IsDefined(storyResponse[s].healthChange)
          /\ ~IsDefined(storyResponse[s].moneyChange)
          /\ ~IsDefined(storyResponse[s].inventoryChanges) )
        => Stats(updatedCharacter[s]) = Stats(row[s])

\* C7: for an alive character read with health h and an outcome with
\* healthChange d: h + d <= 0 gives health 0 and status dead, h + d > 0 gives
\* status alive and health min(maxHealth, h + d).
C7_DeathTrigger ==
    \A s \in Slots :
        (Applied(s) /\ row[s].status = "alive" /\ IsDefined(storyResponse[s].healthChange))
        => LET h == row[s].health
               d == ValueOf(storyResponse[s].healthChange)
           IN IF h + d <= 0
              THEN updatedCharacter[s].health = 0 /\ updatedCharacter[s].status = "dead"
              ELSE /\ updatedCharacter[s].status = "alive"
                   /\ updatedCharacter[s].health = Min(row[s].max_health, h + d)

\* C8: a story request that reads a dead character is answered with an error,
\* writes nothing and does not reach the provider call.
C8_DeadRejected ==
    [][(started' # started /\ characters.exists /\ characters.status = "dead")
          => /\ characters' = characters
             /\ story_events' = story_events
             /\ pc' = pc
             /\ response'.code \in {400, 403}]_vars

\* C8 witness: a request against the dead character was answered 400 and
\* recorded no event.
C8_Witness ==
    /\ characters.exists /\ characters.status = "dead"
    /\ response = ErrorResponse(400)
    /\ Cardinality(story_events) < started

\* The health and status slot s ends with.
FinalStats(s, sr) ==
    IF kind[s] = "combat" THEN combatResult(character[s], sr)
    ELSE LET u == applyStoryChanges(character[s], sr)
         IN [health |-> u.health, status |-> u.status]

\* C9: every write of an action or combat request that changes the health or
\* the status of the record publishes the request's new health and status
\* together.
C9_SingleAtomicWrite ==
    [][\A s \in Slots :
          ( /\ kind[s] \in {"action", "combat"}
            /\ pc'[s] # pc[s]
            /\ <<characters'.health, characters'.status>>
                  # <<characters.health, characters.status>> )
          => LET f == FinalStats(s, IF pc[s] = "ai" THEN storyResponse'[s]
                                    ELSE storyResponse[s])
             IN characters'.health = f.health /\ characters'.status = f.status]_vars

\* C10: no two story requests are at the same time between their read of the
\* character and their last write.
C10_OneWriter ==
    Cardinality({s \in Slots : pc[s] # "idle" /\ kind[s] \in StoryKinds}) <= 1

\* The outcome sr applied to the record r as it was read.
ResultOn(r, sr) ==
    [health |-> Max(0, Min(r.max_health, r.health + DeltaOf(sr.healthChange))),
     money |-> Max(0, r.money + DeltaOf(sr.moneyChange)),
     inventory |-> processInventoryChanges(r.inventory,
                      IF IsDefined(sr.inventoryChanges)
                      THEN ValueOf(sr.inventoryChanges) ELSE <<>>)]

\* Slot s is about to make the last write of two overlapping actions: the
\* other request has written its event into the history since s read the
\* record, and has finished.
Overtaken(s) ==
    /\ Applied(s)
    /\ characters.story_history # row[s].story_history
    /\ \A t \in Slots \ {s} : pc[t] = "idle"

\* C11: when two action requests overlap, the write of the later-writing one
\* leaves the persisted health, money and inventory equal to its outcome
\* applied to the record it read, and it answers 200.
C11_LastWriterWins ==
    [][\A s \in Slots :
          (Overtaken(s) /\ pc'[s] = "idle")
          => /\ [health |-> characters'.health, money |-> characters'.money,
                 inventory |-> characters'.inventory]
                   = ResultOn(row[s], storyResponse[s])
             /\ response'.code = 200]_vars

\* The name a directive carries.
DirectiveName(d) == trim(substring1(d))

\* The positions of the entries whose name equals n ignoring case.
Matches(inv, n) == {i \in 1..Len(inv) : toLowerCase(inv[i].name) = toLowerCase(n)}

\* The quantity held of n: 0 when no entry has that name.
QuantityOf(inv, n) ==
    IF Matches(inv, n) = {} THEN 0
    ELSE inv[CHOOSE i \in Matches(inv, n) : TRUE].quantity

IsAcquire(d) == startsWith(d, "+") /\ Len(DirectiveName(d)) > 0

IsLose(d) == startsWith(d, "-") /\ Len(DirectiveName(d)) > 0

\* A directive list has been applied to the stored character.
Processed == AllIdle /\ IsDefined(storyResponse[1].inventoryChanges)

Before == row[1].inventory

After == characters.inventory

Applied1 == ValueOf(storyResponse[1].inventoryChanges)

\* C12: a single "+name" increments the one entry of that name (ignoring
\* case) and leaves the number of entries and every other entry as they were,
\* or, with no such entry, appends one entry of that name with quantity 1;
\* a list that acquires the same name n times leaves exactly one entry of
\* that name, whose quantity has grown by n.
C12_Acquire ==
    Processed =>
        /\ (Len(Applied1) = 1 /\ IsAcquire(Applied1[1])) =>
              LET n == DirectiveName(Applied1[1]) IN
              IF Matches(Before, n) # {}
              THEN /\ Len(After) = Len(Before)
                   /\ Cardinality(Matches(Before, n)) = 1
                   /\ \A i \in 1..Len(Before) :
                         After[i] = IF i \in Matches(Before, n)
                                    THEN [Before[i] EXCEPT !.quantity = @ + 1]
                                    ELSE Before[i]
              ELSE /\ Len(After) = Len(Before) + 1
                   /\ SubSeq(After, 1, Len(Before)) = Before
                   /\ After[Len(After)].name = n
                   /\ After[Len(After)].quantity = 1
        /\ (\A i \in 1..Len(Applied1) :
                /\ IsAcquire(Applied1[i])
                /\ toLowerCase(DirectiveName(Applied1[i]))
                      = toLowerCase(DirectiveName(Applied1[1]))) =>
              LET n == DirectiveName(Applied1[1]) IN
              /\ Cardinality(Matches(After, n)) = 1
              /\ QuantityOf(After, n) = QuantityOf(Before, n) + Len(Applied1)

\* C12 witness: "+Medkit" applied in two separate calls to a Solo, who starts
\* without a Medkit, has left one Medkit entry with quantity 2.
C12_Witness ==
    /\ Processed /\ started = 2
    /\ Applied1 = << <<"+","M","e","d","k","i","t">> >>
    /\ Len(Before) = 6 /\ Before[6].name = <<"M","e","d","k","i","t">>
    /\ Before[6].quantity = 1
    /\ Len(After) = 6 /\ After[6].name = <<"M","e","d","k","i","t">>
    /\ After[6].quantity = 2

\* The sequence without its i-th element.
Without(seq, i) == SubSeq(seq, 1, i - 1) \o SubSeq(seq, i + 1, Len(seq))

\* C13: a single "-name" decrements the one entry of that name (ignoring
\* case) when its quantity is above 1, removes it when its quantity is 1, and
\* leaves the inventory as it was when no entry has that name; every other
\* entry stays as it was, in its place.
C13_Lose ==
    (Processed /\ Len(Applied1) = 1 /\ IsLose(Applied1[1])) =>
        LET n == DirectiveName(Applied1[1]) IN
        IF Matches(Before, n) = {} THEN After = Before
        ELSE LET i == CHOOSE k \in Matches(Before, n) : TRUE IN
             /\ Cardinality(Matches(Before, n)) = 1
             /\ IF Before[i].quantity > 1
                THEN After = [Before EXCEPT ![i].quantity = @ - 1]
                ELSE After = Without(Before, i)

\* C13 witness: "-stim" applied in two separate calls to a Medic, who starts
\* with two Stim, has removed the entry; every other entry is still there.
C13_Witness ==
    /\ Processed /\ started = 2
    /\ Applied1 = << <<"-","s","t","i","m">> >>
    /\ QuantityOf(Before, <<"S","t","i","m">>) = 1
    /\ Matches(After, <<"S","t","i","m">>) = {}
    /\ Len(After) = Len(Before) - 1
    /\ Len(After) = 3

\* Every entry has quantity >= 1 and no two entries have the same name
\* ignoring case.
WellFormed(inv) ==
    /\ \A i \in 1..Len(inv) : inv[i].quantity >= 1
    /\ \A i, j \in 1..Len(inv) :
          toLowerCase(inv[i].name) = toLowerCase(inv[j].name) => i = j

\* C14: from creation on, after any sequence of applied directive lists, the
\* stored inventory is well-formed.
C14_InventoryWellFormed == characters.exists => WellFormed(characters.inventory)

\* C14 witness: two directive lists have been applied to a Solo, the second
\* acquiring a pistol twice in other letter cases; there is one Pistol entry,
\* with quantity 3 or more.
C14_Witness ==
    /\ Processed /\ started = 2
    /\ Applied1 = << <<"+","p","i","s","t","o","l">>,
                     <<"+"," ","P","I","S","T","O","L">> >>
    /\ Cardinality(Matches(After, <<"p","i","s","t","o","l">>)) = 1
    /\ QuantityOf(After, <<"p","i","s","t","o","l">>) >= 3

\* The ordered rule table of the category inference.
RuleTable ==
    << [category |-> "weapon",
        keywords |-> {<<"w","e","a","p","o","n">>,
                      <<"g","u","n">>,
                      <<"k","n","i","f","e">>,
                      <<"s","w","o","r","d">>,
                      <<"b","l","a","d","e">>,
                      <<"r","i","f","l","e">>,
                      <<"p","i","s","t","o","l">>,
                      <<"a","m","m","o">>}],
       [category |-> "cyberware",
        keywords |-> {<<"c","y","b","e","r","w","a","r","e">>,
                      <<"i","m","p","l","a","n","t">>,
                      <<"a","u","g","m","e","n","t">>,
                      <<"m","o","d">>}],
       [category |-> "consumable",
        keywords |-> {<<"m","e","d","k","i","t">>,
                      <<"s","t","i","m">>,
                      <<"h","e","a","l">>,
                      <<"f","o","o","d">>,
                      <<"d","r","i","n","k">>,
                      <<"c","o","n","s","u","m","a","b","l","e">>}],
       [category |-> "tool",
        keywords |-> {<<"t","o","o","l">>,
                      <<"d","e","c","k">>,
                      <<"d","e","v","i","c","e">>,
                      <<"e","q","u","i","p","m","e","n","t">>}] >>

\* The rules a name matches: those with a keyword the name contains, letter
\* case ignored.
RulesMatching(n) ==
    {k \in 1..Len(RuleTable) :
        \E w \in RuleTable[k].keywords : includes(toLowerCase(n), w)}

\* The category of the first matching rule, misc when none matches.
RuleCategory(n) ==
    IF RulesMatching(n) = {} THEN "misc"
    ELSE RuleTable[CHOOSE k \in RulesMatching(n) :
                      \A j \in RulesMatching(n) : k <= j].category

\* C15: every entry that the applied directives have newly added carries the
\* category of the first rule of the table that its name matches, in the
\* order weapon, cyberware, consumable, tool, and misc when no rule matches.
C15_CategoryInference ==
    Processed =>
        \A i \in 1..Len(After) :
            Matches(Before, After[i].name) = {}
                => After[i].type = RuleCategory(After[i].name)

\* C15 witness: "Gun Mod", which matches a weapon and a cyberware keyword, and
\* "Heal Deck", which matches a consumable and a tool keyword, have been
\* added as weapon and consumable.
C15_Witness ==
    /\ Processed
    /\ Matches(Before, <<"G","u","n"," ","M","o","d">>) = {}
    /\ Matches(Before, <<"H","e","a","l"," ","D","e","c","k">>) = {}
    /\ \E i, j \in 1..Len(After) :
          /\ After[i].name = <<"G","u","n"," ","M","o","d">>
          /\ After[i].type = "weapon"
          /\ Cardinality(RulesMatching(After[i].name)) = 2
          /\ After[j].name = <<"H","e","a","l"," ","D","e","c","k">>
          /\ After[j].type = "consumable"

\* The rearrangements of a directive list.
Rearrangements(l) ==
    {[i \in 1..Len(l) |-> l[p[i]]] :
        p \in {q \in [1..Len(l) -> 1..Len(l)] :
                  \A i, j \in 1..Len(l) : q[i] = q[j] => i = j}}

\* The names of an inventory with their quantities, the names as written.
NameQuantities(inv) == {<<inv[i].name, inv[i].quantity>> : i \in 1..Len(inv)}

\* The names of an inventory with their quantities, the names in lower case.
LowerNameQuantities(inv) ==
    {<<toLowerCase(inv[i].name), inv[i].quantity>> : i \in 1..Len(inv)}

\* The names a directive list acquires and the names it loses, in lower case.
AcquiredNames(l) ==
    {toLowerCase(DirectiveName(l[i])) : i \in {k \in 1..Len(l) : startsWith(l[k], "+")}}

LostNames(l) ==
    {toLowerCase(DirectiveName(l[i])) : i \in {k \in 1..Len(l) : startsWith(l[k], "-")}}

\* C16 as stated: every rearrangement of the applied directive list gives,
\* from the same starting inventory, the same item names with the same
\* quantities.
C16_AnyOrder ==
    Processed =>
        \A l \in Rearrangements(Applied1) :
            NameQuantities(processInventoryChanges(Before, l)) = NameQuantities(After)

\* C16 amended: when no name, letter case ignored, is both acquired and lost
\* by the applied directive list, every rearrangement of the list gives, from
\* the same starting inventory, the same item names, letter case ignored,
\* with the same quantities.
C16_AnyOrderDisjoint ==
    (Processed /\ AcquiredNames(Applied1) \cap LostNames(Applied1) = {}) =>
        \A l \in Rearrangements(Applied1) :
            LowerNameQuantities(processInventoryChanges(Before, l))
                = LowerNameQuantities(After)

\* C16 witness: a Solo has acquired a Rope and lost the Pistol in one list;
\* the list the other way round gives the same names and quantities.
C16_Witness ==
    /\ Processed
    /\ Applied1 = << <<"+"," ","R","o","p","e"," ">>, <<"-","P","i","s","t","o","l">> >>
    /\ QuantityOf(Before, <<"P","i","s","t","o","l">>) = 1
    /\ QuantityOf(After, <<"R","o","p","e">>) = 1
    /\ Matches(After, <<"P","i","s","t","o","l">>) = {}
    /\ Cardinality(Rearrangements(Applied1)) = 2

\* A "+name" or "-name" instruction with a name.
IsInstruction(d) == IsAcquire(d) \/ IsLose(d)

\* C17: a directive with no prefix, or with a prefix and no name, is skipped:
\* the inventory after the applied list is the one its "+name" and "-name"
\* instructions alone give, in their order.
C17_MalformedSkipped ==
    Processed =>
        After = processInventoryChanges(Before, SelectSeq(Applied1, IsInstruction))

\* C18: the last write of a combat request whose resolution has outcome
\* "defeat", no injuries and a status other than dead leaves the health the
\* request read less 20, floored at 0; read at 100, it leaves 80 and alive.
C18_DefeatDamage ==
    [][\A s \in Slots :
          ( /\ pc[s] = "final" /\ kind[s] = "combat" /\ pc'[s] = "idle"
            /\ storyResponse[s].outcome = "defeat"
            /\ storyResponse[s].injuries = 0
            /\ storyResponse[s].characterStatus # "dead" )
          => /\ characters'.health = Max(0, row[s].health - 20)
             /\ row[s].health = 100 =>
                   characters'.health = 80 /\ characters'.status = "alive"]_vars

\* a is an initial segment of b.
IsPrefix(a, b) == Len(a) <= Len(b) /\ SubSeq(b, 1, Len(a)) = a

\* C19: every write leaves a persisted story history that extends the one
\* persisted before it.
C19_HistoryAppendOnly ==
    [][IsPrefix(characters.story_history, characters'.story_history)]_vars

\* The fields of a character that an outcome does not replace.
FrameFields == (DOMAIN NoCharacter) \ {"health", "money", "inventory", "status"}

\* The columns of the record that applyStoryChanges does not write.
FrameColumns == (DOMAIN NoRow) \ {"health", "money", "inventory", "status"}

\* C20: the character that applyStoryChanges returns has, in every field
\* other than health, money, inventory and status (the owner, the scene, the
\* story history as it stood at the call, maxHealth), the value of the
\* character it was given; its write leaves the other columns of the record
\* as they were.
C20_Frame ==
    [][\A s \in Slots :
          (pc[s] = "apply" /\ pc'[s] = "final")
          => /\ \A f \in FrameFields : updatedCharacter'[s][f] = character[s][f]
             /\ \A f \in FrameColumns : characters'[f] = characters[f]]_vars

\* C20 witness: an outcome has changed health, money and inventory of a
\* character whose story history holds the event of this request; the
\* returned character has that history and the owner.
C20_Witness ==
    \E s \in Slots :
        /\ Applied(s)
        /\ updatedCharacter[s].health # character[s].health
        /\ updatedCharacter[s].money # character[s].money
        /\ updatedCharacter[s].inventory # character[s].inventory
        /\ Len(character[s].storyHistory) >= 1
        /\ updatedCharacter[s].storyHistory = character[s].storyHistory
        /\ updatedCharacter[s].playerId = Owner

\* The kits a starting inventory may hold.
GrantsWeapons(inv) == \E i \in 1..Len(inv) : inv[i].type = "weapon"

GrantsHackingTools(inv) ==
    \E i \in 1..Len(inv) :
        inv[i].name \in {<<"C","y","b","e","r","d","e","c","k">>,
                         <<"D","a","t","a"," ","S","h","a","r","d">>}

GrantsMedical(inv) ==
    \E i \in 1..Len(inv) :
        inv[i].name \in {<<"M","e","d","k","i","t">>, <<"S","t","i","m">>}

\* The trade, in lower case, contains one of the keywords.
TradeHas(r, kws) == \E w \in kws : includes(toLowerCase(r.trade), w)

SoloWords == {<<"s","o","l","o">>, <<"c","o","m","b","a","t">>}

HackWords == {<<"n","e","t","r","u","n","n","e","r">>, <<"h","a","c","k">>}

MedicWords == {<<"m","e","d","i","c">>}

\* The keywords of the groups the code tests before the hacking group and
\* before the medic group.
BeforeHackWords == SoloWords \cup {<<"f","i","g","h","t","e","r">>}

BeforeMedicWords ==
    BeforeHackWords \cup HackWords
        \cup {<<"t","e","c","h">>, <<"f","i","x","e","r">>, <<"d","e","a","l","e","r">>}

\* C21 as stated: a character is created with weapons when its trade
\* contains "solo" or "combat", with hacking tools when it contains
\* "netrunner" or "hack", and with medical consumables when it contains
\* "medic", each whatever else the trade contains.
C21_TradeGrants ==
    [][(~characters.exists /\ characters'.exists) =>
          /\ TradeHas(characters', SoloWords) => GrantsWeapons(characters'.inventory)
          /\ TradeHas(characters', HackWords) => GrantsHackingTools(characters'.inventory)
          /\ TradeHas(characters', MedicWords) => GrantsMedical(characters'.inventory)]_vars

\* C21 amended: the kit is that of the first group the trade matches:
\* weapons for "solo" or "combat"; hacking tools for "netrunner" or "hack"
\* when no keyword of the group before is there; medical consumables for
\* "medic" when no keyword of the groups before is there; and a trade with
\* keywords of several groups gets the kit of the first group only.
C21_TradeGrantsFirstGroup ==
    [][(~characters.exists /\ characters'.exists) =>
          LET r == characters'
              inv == characters'.inventory
          IN /\ TradeHas(r, SoloWords) =>
                   GrantsWeapons(inv) /\ ~GrantsHackingTools(inv) /\ ~GrantsMedical(inv)
             /\ (TradeHas(r, HackWords) /\ ~TradeHas(r, BeforeHackWords)) =>
                   GrantsHackingTools(inv) /\ ~GrantsMedical(inv)
             /\ (TradeHas(r, MedicWords) /\ ~TradeHas(r, BeforeMedicWords)) =>
                   GrantsMedical(inv)]_vars

\* C21 witness: a Combat Medic has been created with the weapons and
\* without the medical consumables.
C21_Witness ==
    /\ characters.exists /\ started = 0
    /\ characters.trade = <<"C","o","m","b","a","t"," ","M","e","d","i","c">>
    /\ GrantsWeapons(characters.inventory)
    /\ ~GrantsMedical(characters.inventory)

\* The inventory holds an entry of that name.
Holds(inv, n) == \E i \in 1..Len(inv) : inv[i].name = n

\* C22: a character is created with health 100, maxHealth 100, money 500,
\* status alive, an empty story history, and an inventory that holds the
\* Basic Commlink and the Street Clothes, whatever its trade.
C22_InitialState ==
    [][(~characters.exists /\ characters'.exists) =>
          /\ characters'.health = 100 /\ characters'.max_health = 100
          /\ characters'.money = 500 /\ characters'.status = "alive"
          /\ characters'.story_history = <<>>
          /\ Holds(characters'.inventory,
                   <<"B","a","s","i","c"," ","C","o","m","m","l","i","n","k">>)
          /\ Holds(characters'.inventory,
                   <<"S","t","r","e","e","t"," ","C","l","o","t","h","e","s">>)]_vars

\* C22 witness: a Nomad, whose trade matches no group, has been created and
\* holds exactly the two items every character gets.
C22_Witness ==
    /\ characters.exists /\ started = 0
    /\ characters.trade = <<"N","o","m","a","d">>
    /\ Len(characters.inventory) = 2
    /\ characters.health = 100 /\ characters.money = 500
    /\ characters.status = "alive" /\ characters.story_history = <<>>

\* The step is a request of user u to one of the routes.
RequestBy(u) ==
    \/ ReadCharacter(u)
    \/ \E f \in BOOLEAN, g \in BOOLEAN : Portrait(u, f, g)
    \/ \E s \in Slots, st \in {"alive", "dead"} : BeginPatch(s, u, st)
    \/ \E s \in Slots, k \in StoryKinds : BeginStory(s, k, u)

\* C23: a request to any route by a user who does not own the character is
\* answered 403 and leaves the record as it was.
C23_PrivateToOwner ==
    [][\A u \in Users \ {Owner} :
          (characters.exists /\ RequestBy(u))
          => response'.code = 403 /\ characters' = characters]_vars

\* The outcome of slot s is the one a failed or unparseable provider call
\* leaves: no health or money delta and no inventory directive.
FallbackOutcome(s) ==
    /\ kind[s] = "action" /\ pc[s] \in {"event", "apply", "final"}
    /\ DeltaOf(storyResponse[s].healthChange) = 0
    /\ DeltaOf(storyResponse[s].moneyChange) = 0
    /\ \/ ~IsDefined(storyResponse[s].inventoryChanges)
       \/ ValueOf(storyResponse[s].inventoryChanges) = <<>>

\* C24: an action whose provider call failed or returned unparseable text
\* leaves the persisted health, money, inventory and status as they were at
\* each of its steps, and completes with 200.
C24_FallbackNoChange ==
    [][\A s \in Slots :
          (FallbackOutcome(s) /\ pc'[s] # pc[s])
          => /\ Stats(characters') = Stats(characters)
             /\ pc'[s] = "idle" => response'.code = 200]_vars

\* The appearance hash of the stored character.
CurrentHash == getAppearanceHash(LoadCharacter(characters))

\* The stored hash is the current one and a portrait URL is stored.
PortraitFresh ==
    /\ IsDefined(characters.portrait_hash)
    /\ ValueOf(characters.portrait_hash) = CurrentHash
    /\ IsDefined(characters.portrait_url)

\* C25: a portrait request that is not forced, on a stored hash equal to
\* the current one and a stored URL, returns that URL and writes nothing; a
\* request whose generation succeeds on a stored hash that is not the
\* current one stores the current hash and the new URL and returns it; a
\* request whose generation fails leaves the stored hash and URL as they
\* were.
C25_PortraitCache ==
    [][\A u \in Users, f \in BOOLEAN, g \in BOOLEAN :
          (characters.exists /\ Portrait(u, f, g)) =>
             /\ (~f /\ PortraitFresh) =>
                   /\ response'.code = 200
                   /\ response'.portraitUrl = characters.portrait_url
                   /\ characters' = characters
             /\ (g /\ characters.portrait_hash # <<CurrentHash>>) =>
                   /\ characters'.portrait_hash = <<CurrentHash>>
                   /\ IsDefined(characters'.portrait_url)
                   /\ response'.code = 200
                   /\ response'.portraitUrl = characters'.portrait_url
             /\ (~g /\ (f \/ ~PortraitFresh)) =>
                   /\ characters'.portrait_hash = characters.portrait_hash
                   /\ characters'.portrait_url = characters.portrait_url]_vars

\* C26: in every state of the characters table, the status of the character
\* is dead if and only if its health is 0.
C26_StatusHealthAgree ==
    characters.exists => (characters.status = "dead" <=> characters.health = 0)

\* Slot s holds a story request that read the character alive and has not
\* yet made its last write.
InFlightFromAlive(s) ==
    /\ pc[s] # "idle" /\ kind[s] \in StoryKinds
    /\ row[s].status = "alive"

\* C27: when the last story request in flight read the character alive, no
\* status endpoint request was made, and the record holds status dead and
\* health 0 (a request that overlapped it persisted the death), the record
\* still holds status dead and health 0 once that request has completed.
C27_DeathSurvivesRace ==
    [][\A s \in Slots :
          ( /\ InFlightFromAlive(s) /\ AllIdle' /\ patches = 0
            /\ characters.status = "dead" /\ characters.health = 0 )
          => characters'.status = "dead" /\ characters'.health = 0]_vars

\* The event ids held in the history of the stored character.
HistoryIds == {characters.story_history[i] : i \in DOMAIN characters.story_history}

\* C30: whenever no request is in flight, the event ids in the stored
\* story_history are exactly the ids of the story_events rows.
C30_LogMatchesHistory ==
    (characters.exists /\ AllIdle) => HistoryIds = story_events

\* The money and the inventory of the stored character.
Holdings(r) == [money |-> r.money, inventory |-> r.inventory]

\* C28: no step of a combat or scenario request changes the stored money or
\* inventory, and no step of a scenario request changes the stored health or
\* status.
C28_OnlyActionsChangeHoldings ==
    [][\A s \in Slots :
          (pc[s] # "idle" /\ pc'[s] # pc[s]) =>
             /\ kind[s] \in {"combat", "scenario"}
                   => Holdings(characters') = Holdings(characters)
             /\ kind[s] = "scenario"
                   => /\ characters'.health = characters.health
                      /\ characters'.status = characters.status]_vars

\* C28 witness: a combat request has completed with a health change, the
\* record holds the health it answered and not the starting one, and the
\* money and the inventory are those the character started with.
C28_Witness ==
    /\ AllIdle /\ characters.exists
    /\ response.code = 200 /\ response.healthChange # 0
    /\ characters.health = response.characterHealth
    /\ characters.health # StartingHealth
    /\ characters.money = StartingMoney
    /\ characters.inventory = getStartingInventory(characters.trade)

\* What an entry is, apart from how many of it are held.
Identity(e) == [name |-> e.name, description |-> e.description, type |-> e.type]

\* C29: a list of acquisitions leaves every entry that was held in its
\* place with the name, description and category it was stored with, whatever
\* the letter case of the directive and whatever category the rules would
\* infer from the name.
C29_AcquireKeepsIdentity ==
    (Processed /\ \A k \in 1..Len(Applied1) : IsAcquire(Applied1[k])) =>
        /\ Len(After) >= Len(Before)
        /\ \A i \in 1..Len(Before) : Identity(After[i]) = Identity(Before[i])

\* C29 witness: acquisitions have raised the quantity of an entry whose
\* stored category is not the one the rules infer from its name (the
\* starting Medkit, stored as tool), and of an entry named in another letter
\* case than the directive's.
C29_Witness ==
    /\ Processed /\ \A k \in 1..Len(Applied1) : IsAcquire(Applied1[k])
    /\ \E i \in 1..Len(Before) :
          /\ After[i].quantity > Before[i].quantity
          /\ Before[i].type = "tool" /\ RuleCategory(Before[i].name) = "consumable"
    /\ \E i \in 1..Len(Before) :
          /\ After[i].quantity > Before[i].quantity
          /\ \E k \in 1..Len(Applied1) :
                /\ DirectiveName(Applied1[k]) # Before[i].name
                /\ toLowerCase(DirectiveName(Applied1[k])) = toLowerCase(Before[i].name)

====
